---- MODULE Spec2Model ----
(***************************************************************************)
(* The Pomodoro timer engine of app.js (class PomodoroTimer) together with *)
(* the page handlers that drive it.  Time is in milliseconds, as in the    *)
(* source; `now` is the value Date.now() returns.  The fields startedAt    *)
(* and _lastTick are only ever written by the source, never read, and are  *)
(* left out.  `log` holds the outward calls (alarm, notification, change   *)
(* notification) the last handler made, in order.  `stored` is the         *)
(* localStorage record of the settings and `inputs` the contents of the    *)
(* settings dialog's fields; a text is a sequence of characters.           *)
(***************************************************************************)
EXTENDS Integers, FiniteSets, Sequences, TLC

\* ---------------------------------------------------------------- bounds
MaxCycles == 2           \* cyclesPerRound ranges over 1..MaxCycles
MaxRound == 2            \* skip is explored while round <= MaxRound
MaxNowSec == 120         \* the clock is explored up to MaxNowSec seconds
MaxLiveSec == 240        \* ... and up to MaxLiveSec seconds without user input

\* ------------------------------------------------------- program constants
null == -1               \* JavaScript null of the nullable numeric fields
MsPerMinute == 60000     \* m * 60 * 1000 in _modeToMs
TickMs == 250            \* period of the setInterval loop

Work == "Work"
Short == "Short Break"
Long == "Long Break"
Mode == {Work, Short, Long}

defaultSettings ==
  [workMinutes |-> 25, shortMinutes |-> 5, longMinutes |-> 15,
   cyclesPerRound |-> 4, autoStart |-> FALSE]

\* The configurations the settings dialog is driven with (besides the
\* defaults): short sessions, so that the explored clock range covers whole
\* sessions, with a work duration that can be lengthened and shortened.
WorkChoices == {1, 2}
ShortChoices == {1}
LongChoices == {2}
SettingsSpace ==
  [workMinutes : WorkChoices, shortMinutes : ShortChoices,
   longMinutes : LongChoices, cyclesPerRound : 1..MaxCycles,
   autoStart : BOOLEAN]

\* What a call of playAlarmSound meets: the audio API works, or it throws.
AlarmOutcomes == {"ok", "fails"}

\* What a call of notify meets: the notifications setting off; no Notification
\* API; the permission granted, with the constructor working or throwing; the
\* permission denied; the permission not yet requested, and the request
\* answered with granted or denied, rejected, or still pending.
NotifyEnvs ==
  {"disabled", "unsupported", "granted", "grantedThrows", "denied",
   "askGranted", "askDenied", "askRejected", "askPending"}

\* Amounts by which the wall clock moves between two events (ms).
Stalls == {30000, 60000}

Max(a, b) == IF a >= b THEN a ELSE b

Min(a, b) == IF a <= b THEN a ELSE b

VARIABLES
  settings,       \* this.settings
  mode,           \* this.mode
  cycleInRound,   \* this.cycleInRound
  round,          \* this.round
  isRunning,      \* this.isRunning
  endAt,          \* this.endAt (null when absent)
  remainingMs,    \* this.remainingMs
  intervalId,     \* this._intervalId (null, or the handle of the loop it created)
  loops,          \* number of setInterval loops the page has scheduled
  alarms,         \* number of beep() invocations
  notifies,       \* number of notify() invocations
  now,            \* Date.now()
  log,            \* outward calls of the last handler, in order
  baseMs,         \* history: remainingMs when it was last assigned outside pause/tick
  ranMs,          \* history: clock time elapsed while running since then
  starts,         \* history: start() calls that took effect since then (0, 1, many)
  lastOp,         \* history: the handler that ran last
  stored,         \* localStorage item "pomodoro:settings:v1"
  inputs          \* the settings dialog's fields

vars == <<settings, mode, cycleInRound, round, isRunning, endAt, remainingMs,
          intervalId, loops, alarms, notifies, now, log, baseMs, ranMs,
          starts, lastOp, stored, inputs>>

\* The timer object and the page state it touches, as one value the methods
\* transform; a handler starts with an empty log and no exception raised.
World ==
  [settings |-> settings, mode |-> mode, cycleInRound |-> cycleInRound,
   round |-> round, isRunning |-> isRunning, endAt |-> endAt,
   remainingMs |-> remainingMs, intervalId |-> intervalId, loops |-> loops,
   alarms |-> alarms, notifies |-> notifies, log |-> <<>>, thrown |-> FALSE,
   stored |-> stored, inputs |-> inputs]

Commit(w) ==
  /\ settings' = w.settings
  /\ mode' = w.mode
  /\ cycleInRound' = w.cycleInRound
  /\ round' = w.round
  /\ isRunning' = w.isRunning
  /\ endAt' = w.endAt
  /\ remainingMs' = w.remainingMs
  /\ intervalId' = w.intervalId
  /\ loops' = w.loops
  /\ alarms' = w.alarms
  /\ notifies' = w.notifies
  /\ log' = w.log
  /\ stored' = w.stored
  /\ inputs' = w.inputs

\* ------------------------------------------------- persisted configuration
\* A key of the stored object: missing, or present with a value.
absent(d) == [present |-> FALSE, value |-> d]
given(v) == [present |-> TRUE, value |-> v]

NoFields ==
  [workMinutes |-> absent(0), shortMinutes |-> absent(0),
   longMinutes |-> absent(0), cyclesPerRound |-> absent(0),
   autoStart |-> absent(FALSE)]

\* The stored item: no item, the empty string, text that JSON.parse rejects,
\* JSON that is not an object (null, a number), or a JSON object.
Missing == [kind |-> "missing", fields |-> NoFields]
Unusable ==
  {[kind |-> k, fields |-> NoFields] :
     k \in {"missing", "empty", "garbage", "scalar"}}

\* JSON.stringify of a settings object, as JSON.parse reads it back.
stringify(s) ==
  [kind |-> "object",
   fields |-> [workMinutes |-> given(s.workMinutes),
               shortMinutes |-> given(s.shortMinutes),
               longMinutes |-> given(s.longMinutes),
               cyclesPerRound |-> given(s.cyclesPerRound),
               autoStart |-> given(s.autoStart)]]

loadSettings_defaultsWin(raw) == defaultSettings

loadSettings(raw) ==
  IF raw.kind \in {"missing", "empty"} THEN defaultSettings
  ELSE IF raw.kind = "garbage" THEN defaultSettings
  ELSE LET parsed == raw.fields
           spread(k) == IF parsed[k].present THEN parsed[k].value
                        ELSE defaultSettings[k]
       IN  [workMinutes |-> spread("workMinutes"),
            shortMinutes |-> spread("shortMinutes"),
            longMinutes |-> spread("longMinutes"),
            cyclesPerRound |-> spread("cyclesPerRound"),
            autoStart |-> spread("autoStart")]

saveSettings(w, s) == [w EXCEPT !.stored = stringify(s)]

\* The records the page is started with: none stored yet, or one a previous
\* visit saved from the dialog.
StoredByPage == {Missing} \cup {stringify(s) : s \in SettingsSpace}

\* Records of any origin: unusable ones, and objects in which each key is
\* missing or holds a number, valid or not.
StoredAny ==
  Unusable \cup
  {[kind |-> "object",
    fields |-> [workMinutes |-> w, shortMinutes |-> sh, longMinutes |-> l,
                cyclesPerRound |-> c, autoStart |-> a]] :
     w \in {absent(0), given(0), given(1)},
     sh \in {absent(0), given(1)},
     l \in {absent(0), given(2)},
     c \in {absent(0), given(0), given(2)},
     a \in {absent(FALSE), given(TRUE)}}

\* ------------------------------------------------------- settings dialog
DigitChars == <<"0", "1", "2", "3", "4", "5", "6", "7", "8", "9">>

Digits == {DigitChars[i] : i \in 1..10}

DigitValue == [ch \in Digits |-> (CHOOSE i \in 1..10 : DigitChars[i] = ch) - 1]

RECURSIVE digitsOf(_)
digitsOf(n) ==
  IF n < 10 THEN <<DigitChars[n + 1]>>
  ELSE Append(digitsOf(n \div 10), DigitChars[(n % 10) + 1])

\* String(n) for an integer n.
toString(n) == IF n < 0 THEN <<"-">> \o digitsOf(-n) ELSE digitsOf(n)

\* Position of the first character of text, from i on, that is not a space.
RECURSIVE skipSpaces(_, _)
skipSpaces(text, i) ==
  IF i <= Len(text) /\ text[i] = " " THEN skipSpaces(text, i + 1) ELSE i

\* Value of the digits of text from position i on, up to the first character
\* that is not a digit, continuing the value acc.
RECURSIVE digitsValue(_, _, _)
digitsValue(text, i, acc) ==
  IF i <= Len(text) /\ text[i] \in Digits
  THEN digitsValue(text, i + 1, 10 * acc + DigitValue[text[i]])
  ELSE acc

NaN == [nan |-> TRUE, n |-> 0]

\* Number.parseInt(text, 10): leading white space, an optional sign, the
\* longest run of digits; NaN when there is no digit there.
parseInt(text) ==
  LET i == skipSpaces(text, 1)
      signed == i <= Len(text) /\ text[i] \in {"-", "+"}
      j == IF signed THEN i + 1 ELSE i
  IN  IF ~(j <= Len(text) /\ text[j] \in Digits) THEN NaN
      ELSE [nan |-> FALSE,
            n |-> IF signed /\ text[i] = "-" THEN 0 - digitsValue(text, j, 0)
                  ELSE digitsValue(text, j, 0)]

clampInt_noClamp(value, min, max, fallback) ==
  LET n == parseInt(value)
  IN  IF n.nan THEN fallback ELSE n.n

clampInt(value, min, max, fallback) ==
  LET n == parseInt(value)
  IN  IF n.nan THEN fallback ELSE Min(max, Max(min, n.n))

\* The fields as the page fills them from a settings object.
fillDialog(s) ==
  [work |-> toString(s.workMinutes), short |-> toString(s.shortMinutes),
   long |-> toString(s.longMinutes), cycles |-> toString(s.cyclesPerRound),
   autoStart |-> s.autoStart]

\* The settings object saveSettingsChanges builds from the fields.
readDialog(f) ==
  [workMinutes |-> clampInt(f.work, 1, 180, defaultSettings.workMinutes),
   shortMinutes |-> clampInt(f.short, 1, 60, defaultSettings.shortMinutes),
   longMinutes |-> clampInt(f.long, 1, 60, defaultSettings.longMinutes),
   cyclesPerRound |-> clampInt(f.cycles, 1, 12, defaultSettings.cyclesPerRound),
   autoStart |-> f.autoStart]

\* What the user leaves in the dialog before saving: the numerals of a
\* configuration of SettingsSpace.
Typed == {fillDialog(s) : s \in SettingsSpace}

\* Any text in the number fields: every pair of texts, one in the work and
\* long-break fields and one in the short-break and cycles fields.
Texts ==
  {<<>>, <<"a", "b">>, <<"0">>, <<"7">>, <<"-", "3">>, <<"+", "5">>,
   <<"6", "1">>, <<"2", "0", "0">>, <<" ", "1", "2">>, <<"9", "x">>}
TypedAny ==
  {[work |-> a, short |-> b, long |-> a, cycles |-> b, autoStart |-> c] :
     a \in Texts, b \in Texts, c \in BOOLEAN}

\* ------------------------------------------------------------ the engine
modeToMs_swapped(s, m) ==
  (IF m = Work THEN s.workMinutes
   ELSE IF m = Short THEN s.longMinutes
   ELSE s.shortMinutes) * MsPerMinute

modeToMs(s, m) ==
  (IF m = Work THEN s.workMinutes
   ELSE IF m = Short THEN s.shortMinutes
   ELSE s.longMinutes) * MsPerMinute

\* The snapshot _emit hands to the listener.
Snapshot(w, modeChanged) ==
  [mode |-> w.mode, remainingMs |-> w.remainingMs,
   cycleInRound |-> w.cycleInRound, round |-> w.round,
   totalMs |-> modeToMs(w.settings, w.mode), isRunning |-> w.isRunning,
   modeChanged |-> modeChanged]

emit(w, modeChanged) ==
  [w EXCEPT !.log = Append(@, [call |-> "emit",
                               arg |-> Snapshot(w, modeChanged)])]

ensureTicker_noGuard(w) ==
  [w EXCEPT !.intervalId = 1, !.loops = @ + 1]

ensureTicker(w) ==
  IF w.intervalId # null THEN w
  ELSE [w EXCEPT !.intervalId = 1, !.loops = @ + 1]

start_endNow(w, t) ==
  IF w.isRunning THEN w
  ELSE ensureTicker([w EXCEPT !.isRunning = TRUE, !.endAt = t])

start_noGuard(w, t) ==
  ensureTicker([w EXCEPT !.isRunning = TRUE, !.endAt = t + w.remainingMs])

start_fromFull(w, t) ==
  IF w.isRunning THEN w
  ELSE ensureTicker([w EXCEPT !.isRunning = TRUE,
                              !.endAt = t + modeToMs(w.settings, w.mode)])

start(w, t) ==
  IF w.isRunning THEN w
  ELSE ensureTicker([w EXCEPT !.isRunning = TRUE, !.endAt = t + w.remainingMs])

pause(w, t) ==
  IF ~w.isRunning THEN w
  ELSE [w EXCEPT
          !.isRunning = FALSE,
          !.remainingMs = IF w.endAt # null THEN Max(0, w.endAt - t) ELSE @,
          !.endAt = null,
          !.intervalId = null,
          !.loops = IF w.intervalId # null THEN @ - 1 ELSE @]

reset_restartRound(w, t) ==
  LET p == pause(w, t)
  IN  [p EXCEPT !.remainingMs = modeToMs(p.settings, p.mode), !.endAt = null,
                !.cycleInRound = 1]

reset_noPause(w, t) ==
  [w EXCEPT !.remainingMs = modeToMs(w.settings, w.mode), !.endAt = null]

reset(w, t) ==
  LET p == pause(w, t)
  IN  [p EXCEPT !.remainingMs = modeToMs(p.settings, p.mode), !.endAt = null]

isEndOfRound_strict(w) == w.cycleInRound > w.settings.cyclesPerRound

isEndOfRound(w) == w.cycleInRound >= w.settings.cyclesPerRound

autoStartNext_keepEndAt(r, t) ==
  IF r.settings.autoStart
  THEN ensureTicker([r EXCEPT !.isRunning = TRUE,
                              !.endAt = t + r.remainingMs])
  ELSE [r EXCEPT !.isRunning = FALSE]

autoStartNext_always(r, t) ==
  ensureTicker([r EXCEPT !.isRunning = TRUE, !.endAt = t + r.remainingMs])

autoStartNext_noTicker(r, t) ==
  IF r.settings.autoStart
  THEN [r EXCEPT !.isRunning = TRUE, !.endAt = t + r.remainingMs]
  ELSE [r EXCEPT !.isRunning = FALSE, !.endAt = null]

\* The tail of _advanceMode: start the next session, or leave it paused.
autoStartNext(r, t) ==
  IF r.settings.autoStart
  THEN ensureTicker([r EXCEPT !.isRunning = TRUE,
                              !.endAt = t + r.remainingMs])
  ELSE [r EXCEPT !.isRunning = FALSE, !.endAt = null]

advanceMode_roundOnReturn(w, t) ==
  LET m == IF w.mode = Work
           THEN [w EXCEPT
                   !.mode = IF isEndOfRound(w) THEN Long ELSE Short,
                   !.cycleInRound = IF isEndOfRound(w) THEN 1 ELSE @ + 1]
           ELSE [w EXCEPT !.mode = Work,
                          !.round = IF w.mode = Long THEN @ + 1 ELSE @]
      r == [m EXCEPT !.remainingMs = modeToMs(m.settings, m.mode)]
  IN  emit(autoStartNext(r, t), TRUE)

advanceMode(w, t) ==
  LET m == IF w.mode = Work
           THEN [w EXCEPT
                   !.mode = IF isEndOfRound(w) THEN Long ELSE Short,
                   !.cycleInRound = IF isEndOfRound(w) THEN 1 ELSE @ + 1,
                   !.round = IF isEndOfRound(w) THEN @ + 1 ELSE @]
           ELSE [w EXCEPT !.mode = Work]
      r == [m EXCEPT !.remainingMs = modeToMs(m.settings, m.mode)]
  IN  emit(autoStartNext(r, t), TRUE)

beep_uncaught(w, outcome) ==
  [w EXCEPT !.alarms = @ + 1,
            !.thrown = (outcome = "fails"),
            !.log = Append(@, [call |-> "beep",
                               arg |-> [running |-> w.isRunning]])]

\* beep(): playAlarmSound runs inside try/catch, so a failing audio API
\* raises nothing.
beep(w, outcome) ==
  [w EXCEPT !.alarms = @ + 1,
            !.log = Append(@, [call |-> "beep",
                               arg |-> [running |-> w.isRunning]])]

\* What each environment of NotifyEnvs stands for: the notifications setting,
\* the presence of the Notification API, Notification.permission, what
\* requestPermission answers when asked, and whether the constructor throws.
EnvOf(e) ==
  [enabled |-> e # "disabled",
   supported |-> e # "unsupported",
   permission |-> IF e \in {"granted", "grantedThrows"} THEN "granted"
                  ELSE IF e = "denied" THEN "denied"
                  ELSE "default",
   answer |-> CASE e = "askGranted" -> "granted"
                [] e = "askDenied" -> "denied"
                [] e = "askRejected" -> "rejects"
                [] OTHER -> "pending",
   ctorThrows |-> e = "grantedThrows"]

Quiet == [requested |-> FALSE, shown |-> FALSE, raised |-> FALSE]

notifyBody_askAlways(e) ==
  LET v == EnvOf(e)
  IN  IF ~v.enabled THEN Quiet
      ELSE IF ~v.supported THEN Quiet
      ELSE [requested |-> TRUE,
            shown |-> v.answer = "granted" \/ v.permission = "granted",
            raised |-> v.answer = "rejects"]

\* What the body of notify does in environment e: whether it requests the
\* permission, whether a notification is shown, whether it raises inside
\* the try block.
notifyBody(e) ==
  LET v == EnvOf(e)
  IN  IF ~v.enabled THEN Quiet
      ELSE IF ~v.supported THEN Quiet
      ELSE IF v.permission = "granted"
        THEN [requested |-> FALSE, shown |-> ~v.ctorThrows,
              raised |-> v.ctorThrows]
      ELSE IF v.permission # "denied"
        THEN [requested |-> TRUE, shown |-> v.answer = "granted",
              raised |-> v.answer = "rejects"]
      ELSE Quiet

\* notify(title, body): an async function whose whole body is inside
\* try/catch; whatever the body meets, the call returns normally.
notify(w, title, body, e) ==
  [w EXCEPT !.notifies = @ + 1,
            !.log = Append(@, [call |-> "notify",
                               arg |-> [title |-> title, body |-> body,
                                        running |-> w.isRunning,
                                        requested |-> notifyBody(e).requested,
                                        shown |-> notifyBody(e).shown]])]

onComplete_noPause(w, t, outcome, e) ==
  advanceMode(notify(beep(w, outcome), <<w.mode, "completed">>,
                     "Time to switch!", e), t)

onComplete_advanceFirst(w, t, outcome, e) ==
  LET a == advanceMode(pause(w, t), t)
  IN  notify(beep(a, outcome), <<a.mode, "completed">>, "Time to switch!", e)

\* The four statements in order, from the innermost set outwards: p is the
\* state pause() leaves, b the one beep() leaves, n the one notify() leaves.
\* Statements after a call that raised an exception do not run.
onComplete(w, t, outcome, e) ==
  CHOOSE r \in
    {IF n.thrown THEN n ELSE advanceMode(n, t) :
       n \in {IF b.thrown THEN b
              ELSE notify(b, <<b.mode, "completed">>, "Time to switch!", e) :
                b \in {IF p.thrown THEN p ELSE beep(p, outcome) :
                         p \in {pause(w, t)}}}} : TRUE

skip_viaComplete(w, t) == onComplete(w, t, "ok", "disabled")

skip(w, t) == advanceMode(w, t)

recompute_frozen(w, t) == w.remainingMs

recompute_fixedStep(w, t) == Max(0, w.remainingMs - TickMs)

\* remainingMs as the interval callback recomputes it.
recompute(w, t) ==
  IF w.endAt # null THEN Max(0, w.endAt - t) ELSE w.remainingMs

tick_noReturn(w, t, outcome, e) ==
  IF ~w.isRunning THEN w
  ELSE LET u == [w EXCEPT !.remainingMs = recompute(w, t)]
       IN  IF u.remainingMs = 0 THEN emit(onComplete(u, t, outcome, e), FALSE)
           ELSE emit(u, FALSE)

tick_noGuard(w, t, outcome, e) ==
  LET u == [w EXCEPT !.remainingMs = recompute(w, t)]
  IN  IF u.remainingMs = 0 THEN onComplete(u, t, outcome, e)
      ELSE emit(u, FALSE)

tick(w, t, outcome, e) ==
  IF ~w.isRunning THEN w
  ELSE LET u == [w EXCEPT !.remainingMs = recompute(w, t)]
       IN  IF u.remainingMs = 0 THEN onComplete(u, t, outcome, e)
           ELSE emit(u, FALSE)

setSettings_keepRemaining(w, nextSettings, t) ==
  LET preservedRunning == w.isRunning
      p == pause(w, t)
      q == [p EXCEPT !.settings = nextSettings]
  IN  emit(IF preservedRunning THEN start(q, t) ELSE q, TRUE)

setSettings_noResume(w, nextSettings, t) ==
  LET p == pause(w, t)
  IN  emit([p EXCEPT !.settings = nextSettings,
                     !.remainingMs = modeToMs(nextSettings, p.mode)], TRUE)

setSettings(w, nextSettings, t) ==
  LET preservedRunning == w.isRunning
      p == pause(w, t)
      q == [p EXCEPT !.settings = nextSettings,
                     !.remainingMs = modeToMs(nextSettings, p.mode)]
  IN  emit(IF preservedRunning THEN start(q, t) ELSE q, TRUE)

selectMode_noPause(w, targetMode, t) ==
  emit([w EXCEPT !.mode = targetMode,
                 !.remainingMs = modeToMs(w.settings, targetMode),
                 !.endAt = null], TRUE)

selectMode(w, targetMode, t) ==
  LET p == IF w.isRunning THEN pause(w, t) ELSE w
  IN  emit([p EXCEPT !.mode = targetMode,
                     !.remainingMs = modeToMs(p.settings, targetMode),
                     !.endAt = null], TRUE)

\* The click handlers of the start/pause and reset buttons: the engine call,
\* then the handler's own change notification.
clickStart_noEmit(w, t) == start(w, t)

clickStart(w, t) == emit(start(w, t), FALSE)

clickPause(w, t) == emit(pause(w, t), FALSE)

clickReset(w, t) == emit(reset(w, t), FALSE)

\* saveSettingsChanges, with next the object it has built from the dialog
\* (readDialog of the fields): persist, setSettings, then a second change
\* notification.
saveSettingsChanges(w, next, t) ==
  emit(setSettings(saveSettings(w, next), next, t), TRUE)

DefaultFields == fillDialog(defaultSettings)

\* The reset-to-defaults handler: the same with the defaults, which it also
\* writes into the dialog.
resetSettings(w, t) ==
  saveSettingsChanges([w EXCEPT !.inputs = DefaultFields], defaultSettings, t)

construct_fromDefaults(s) ==
  [settings |-> s, mode |-> Work, cycleInRound |-> 1, round |-> 1,
   isRunning |-> FALSE, endAt |-> null,
   remainingMs |-> modeToMs(defaultSettings, Work), intervalId |-> null]

\* new PomodoroTimer(settings)
construct(s) ==
  [settings |-> s, mode |-> Work, cycleInRound |-> 1, round |-> 1,
   isRunning |-> FALSE, endAt |-> null, remainingMs |-> modeToMs(s, Work),
   intervalId |-> null]

\* ------------------------------------------------------------ behaviour
\* The page's startup with one of the records S in localStorage: load the
\* settings, fill the dialog, construct the timer, subscribe and paint.
Startup(S) ==
  /\ stored \in S
  /\ settings = construct(loadSettings(stored)).settings
  /\ inputs = fillDialog(settings)
  /\ mode = construct(settings).mode
  /\ cycleInRound = construct(settings).cycleInRound
  /\ round = construct(settings).round
  /\ isRunning = construct(settings).isRunning
  /\ endAt = construct(settings).endAt
  /\ remainingMs = construct(settings).remainingMs
  /\ intervalId = construct(settings).intervalId
  /\ loops = 0
  /\ alarms = 0
  /\ notifies = 0
  /\ now = 0
  /\ log = emit(World, TRUE).log
  /\ baseMs = remainingMs
  /\ ranMs = 0
  /\ starts = 0
  /\ lastOp = "init"

Init == Startup(StoredByPage)

\* History bookkeeping shared by the actions: `fresh` tells that the step
\* assigned remainingMs a full duration.
Hist(op, fresh) ==
  /\ lastOp' = op
  /\ baseMs' = IF fresh THEN remainingMs' ELSE baseMs
  /\ ranMs' = IF fresh THEN 0 ELSE ranMs
  /\ starts' = IF fresh THEN (IF isRunning' THEN 1 ELSE 0)
               ELSE IF ~isRunning /\ isRunning' /\ starts < 2 THEN starts + 1
               ELSE starts

Start ==
  /\ Commit(clickStart(World, now))
  /\ Hist("start", FALSE)
  /\ UNCHANGED now

Pause ==
  /\ Commit(clickPause(World, now))
  /\ Hist("pause", FALSE)
  /\ UNCHANGED now

Reset ==
  /\ Commit(clickReset(World, now))
  /\ Hist("reset", TRUE)
  /\ UNCHANGED now

Skip ==
  /\ round <= MaxRound
  /\ Commit(skip(World, now))
  /\ Hist("skip", TRUE)
  /\ UNCHANGED now

\* The interval callback of a scheduled loop runs.
Completes == isRunning /\ recompute(World, now) = 0

\* The collaborators are called by a completing tick only, so only then do
\* the environments they meet matter.
Tick ==
  /\ loops > 0
  /\ \E outcome \in (IF Completes THEN AlarmOutcomes ELSE {"ok"}),
        e \in (IF Completes THEN NotifyEnvs ELSE {"disabled"}) :
       \E r \in {tick(World, now, outcome, e)} : Commit(r)
  /\ Hist(IF Completes THEN "complete" ELSE "tick", Completes)
  /\ UNCHANGED now

\* Each of the dialog contents T with the object the save handler builds
\* from it.
Read(T) == {[fields |-> f, next |-> readDialog(f)] : f \in T}

TypedRead == Read(Typed)

TypedAnyRead == Read(TypedAny)

\* The user edits the dialog's fields to one of D and saves.
SaveTyped(D) ==
  \E d \in D :
    /\ Commit(saveSettingsChanges([World EXCEPT !.inputs = d.fields],
                                  d.next, now))
    /\ Hist("save", TRUE)
    /\ UNCHANGED now

SaveSettings == SaveTyped(TypedRead)

ResetSettings ==
  /\ Commit(resetSettings(World, now))
  /\ Hist("defaults", TRUE)
  /\ UNCHANGED now

ModeButton ==
  \E targetMode \in Mode :
    /\ Commit(selectMode(World, targetMode, now))
    /\ Hist("mode", TRUE)
    /\ UNCHANGED now

\* The clock moves on, up to the explored limit.
ClockTo(limit) ==
  \E d \in Stalls :
    /\ now + d <= limit
    /\ now' = now + d
    /\ ranMs' = IF isRunning THEN ranMs + d ELSE ranMs
    /\ lastOp' = "clock"
    /\ log' = <<>>
    /\ UNCHANGED <<settings, mode, cycleInRound, round, isRunning, endAt,
                   remainingMs, intervalId, loops, alarms, notifies,
                   baseMs, starts, stored, inputs>>

ClockAdvance == ClockTo(MaxNowSec * 1000)

Next ==
  \/ Start
  \/ Pause
  \/ Reset
  \/ Skip
  \/ Tick
  \/ SaveSettings
  \/ ResetSettings
  \/ ModeButton
  \/ ClockAdvance

Spec == Init /\ [][Next]_vars

\* The engine under a fixed configuration: no settings change and no direct
\* mode selection.
NextFixed ==
  \/ Start
  \/ Pause
  \/ Reset
  \/ Skip
  \/ Tick
  \/ ClockAdvance

SpecFixed == Init /\ [][NextFixed]_vars

\* The page started on a stored record of any origin, and then run.
InitLoad == Startup(StoredAny)

NextLoad ==
  \/ Start
  \/ Tick
  \/ ClockAdvance

SpecLoad == InitLoad /\ [][NextLoad]_vars

\* The page left to itself once started: the interval callback keeps being
\* called while a loop is scheduled, and the clock keeps advancing.
ClockRuns == ClockTo(MaxLiveSec * 1000)

NextLive ==
  \/ Start
  \/ Tick
  \/ ClockRuns

SpecLive ==
  Init /\ [][NextLive]_vars /\ WF_vars(Tick) /\ WF_vars(ClockRuns)

\* The settings dialog saved with any text in its number fields.
SaveAnyText == SaveTyped(TypedAnyRead)

NextDialog ==
  \/ SaveAnyText
  \/ ResetSettings

SpecDialog == Init /\ [][NextDialog]_vars

\* ------------------------------------------------------------ properties
\* The configured duration of mode m under configuration s, in ms, stated
\* apart from the engine's own conversion.
DurationMs(s, m) ==
  CASE m = Work -> s.workMinutes * 60000
    [] m = Short -> s.shortMinutes * 60000
    [] m = Long -> s.longMinutes * 60000

fullMs == DurationMs(settings, mode)

\* A step that performed a mode advance (skip, or a tick that completed).
Advanced == lastOp' \in {"skip", "complete"}

\* The sessions of one round, in order, as <<mode, cycleInRound>>:
\* Work(1), Short, Work(2), ..., Work(n), Long.
RoundSeq(n) ==
  [i \in 1..(2 * n) |->
     IF i = 2 * n THEN <<Long, 1>>
     ELSE IF i % 2 = 1 THEN <<Work, (i + 1) \div 2>>
     ELSE <<Short, (i \div 2) + 1>>]

OnRoundSeq(n, m, c) == \E i \in 1..(2 * n) : RoundSeq(n)[i] = <<m, c>>

SeqIndex(n, m, c) == CHOOSE i \in 1..(2 * n) : RoundSeq(n)[i] = <<m, c>>

\* C1: under a fixed configuration with cyclesPerRound = n, every mode
\* advance (skip or natural completion) moves the session to the next entry
\* of Work(1), Short, Work(2), ..., Work(n), Long, and from Long back to
\* Work(1); round grows by one exactly when the long break is entered.  So n
\* Work sessions lie between two consecutive long breaks.
C1_RoundSequence ==
  [][LET n == settings.cyclesPerRound
     IN  /\ OnRoundSeq(n, mode, cycleInRound)
         /\ Advanced =>
               /\ OnRoundSeq(n, mode', cycleInRound')
               /\ SeqIndex(n, mode', cycleInRound')
                    = (SeqIndex(n, mode, cycleInRound) % (2 * n)) + 1
               /\ round' = IF mode' = Long THEN round + 1 ELSE round
         /\ ~Advanced => <<mode', cycleInRound', round'>>
                           = <<mode, cycleInRound, round>>]_vars

\* The end of the sequence listed for four cycles: Work(1) of round 2, reached
\* with cyclesPerRound = 4.
C1_Witness ==
  /\ settings.cyclesPerRound = 4
  /\ mode = Work /\ cycleInRound = 1 /\ round = 2
  /\ lastOp = "skip"

\* The result of one mode advance, as the mode-advance algorithm defines it.
RefAdvance ==
  /\ settings' = settings
  /\ mode = Work /\ cycleInRound >= settings.cyclesPerRound =>
        mode' = Long /\ cycleInRound' = 1 /\ round' = round + 1
  /\ mode = Work /\ cycleInRound < settings.cyclesPerRound =>
        mode' = Short /\ cycleInRound' = cycleInRound + 1 /\ round' = round
  /\ mode \in {Short, Long} =>
        mode' = Work /\ cycleInRound' = cycleInRound /\ round' = round
  /\ remainingMs' = DurationMs(settings, mode')

\* C2: one mode advance yields the reference result: from Work with
\* cycleInRound >= cyclesPerRound the next mode is Long Break, cycleInRound
\* becomes 1 and round grows by 1; from Work otherwise the next mode is Short
\* Break and cycleInRound grows by 1; from a break the next mode is Work with
\* cycleInRound and round untouched; remainingMs becomes the new mode's full
\* configured duration.
C2_AdvanceReference == [][Advanced => RefAdvance]_vars

\* A long break entered by the natural completion of the Work session that
\* ends round 1.
C2_Witness ==
  /\ lastOp = "complete"
  /\ mode = Long /\ cycleInRound = 1 /\ round = 2
  /\ remainingMs = settings.longMinutes * 60000
  /\ settings.cyclesPerRound = 1 /\ settings.workMinutes = 1

\* What is left of the session according to the history: the remaining time
\* last assigned in full, less the clock time spent running since.
LeftMs == Max(0, baseMs - ranMs)

\* C3: resuming continues from the remaining time.  While paused remainingMs
\* is the time last assigned less the time spent running since (floored at 0),
\* however many pause/start pairs and however much paused time lie between;
\* while running endAt is `now` plus that amount.
C3_ResumeCorrect ==
  /\ ~isRunning => remainingMs = LeftMs
  /\ isRunning => endAt # null /\ Max(0, endAt - now) = LeftMs

\* Paused for the second time, after two running intervals that together
\* consumed part of the session.
C3_Witness ==
  /\ lastOp = "pause" /\ starts = 2
  /\ ranMs = 60000 /\ baseMs = 120000 /\ remainingMs = 60000
  /\ now > ranMs

\* C4: endAt is set exactly while the engine is running.
C4_EndAtIffRunning == (endAt # null) <=> isRunning

\* A skip of a running session with auto-start off: the engine is left
\* paused, with endAt cleared.
C4_Witness ==
  /\ lastOp = "skip" /\ ~isRunning /\ endAt = null
  /\ intervalId # null

\* C5: remainingMs lies between 0 and the full duration of the current mode
\* under the active configuration.
C5_RemainingInRange == 0 <= remainingMs /\ remainingMs <= fullMs

\* A configuration with a 1-minute work duration was saved while a Work
\* session was running: the session restarts with exactly that minute.
C5_Witness ==
  /\ lastOp = "save" /\ mode = Work
  /\ settings.workMinutes = 1 /\ remainingMs = 60000
  /\ isRunning /\ now > 0

\* C6: cycleInRound lies between 1 and cyclesPerRound of the active
\* configuration.
C6_CycleInRange ==
  1 <= cycleInRound /\ cycleInRound <= settings.cyclesPerRound

\* C7: skip advances the mode and invokes neither the alarm nor the
\* notification collaborator.
C7_SkipIsSilent ==
  [][lastOp' = "skip" =>
       /\ alarms' = alarms
       /\ notifies' = notifies
       /\ RefAdvance]_vars

\* A skip of a running session, in a run in which an earlier natural
\* completion did raise the alarm.
C7_Witness ==
  /\ lastOp = "skip" /\ alarms = 1 /\ notifies = 1
  /\ isRunning /\ settings.autoStart

\* C8: a natural completion invokes the alarm once and the notification once
\* and advances the mode once; it leaves at most the one recompute loop of the
\* next session, which has its full time ahead, so the next tick does not
\* complete again; a tick that does not complete invokes no collaborator and
\* advances nothing.
C8_CompletionOnce ==
  [][/\ lastOp' = "complete" =>
          /\ alarms' = alarms + 1
          /\ notifies' = notifies + 1
          /\ RefAdvance
          /\ loops' = IF isRunning' THEN 1 ELSE 0
          /\ isRunning' => endAt' = now' + remainingMs' /\ remainingMs' > 0
     /\ lastOp' = "tick" =>
          /\ alarms' = alarms
          /\ notifies' = notifies
          /\ <<mode', cycleInRound', round'>> = <<mode, cycleInRound, round>>]_vars

\* The second natural completion of a run with auto-start on.
C8_Witness ==
  /\ lastOp = "complete" /\ alarms = 2 /\ notifies = 2
  /\ isRunning /\ loops = 1

\* C9: right after a mode advance, with auto-start on the engine is running
\* with endAt = now + the new mode's full duration; with auto-start off it is
\* paused, endAt is absent and remainingMs is the new mode's full duration.
C9_AutoStartAfterAdvance ==
  lastOp \in {"skip", "complete"} =>
    IF settings.autoStart
    THEN isRunning /\ endAt = now + fullMs
    ELSE ~isRunning /\ endAt = null /\ remainingMs = fullMs

\* A natural completion with auto-start on, entering a long break.
C9_Witness ==
  /\ lastOp = "complete" /\ settings.autoStart
  /\ mode = Long /\ isRunning /\ endAt = now + 120000

\* C10: after a configuration change remainingMs is the full duration of the
\* (unchanged) current mode under the new configuration, and the engine runs
\* exactly if it ran before, then with endAt = now + that duration.
C10_ConfigureResets ==
  [][lastOp' \in {"save", "defaults"} =>
       /\ mode' = mode
       /\ remainingMs' = DurationMs(settings', mode)
       /\ isRunning' = isRunning
       /\ endAt' = IF isRunning THEN now + DurationMs(settings', mode) ELSE null]_vars

\* The configuration was saved while the first Work session was running, with
\* the clock at 30 s: it runs on with the whole new duration ahead.
C10_Witness ==
  /\ lastOp = "save" /\ isRunning /\ now = 30000 /\ alarms = 0
  /\ mode = Work /\ round = 1 /\ cycleInRound = 1
  /\ endAt = now + settings.workMinutes * 60000

\* C11: reset leaves the engine paused with endAt absent and remainingMs the
\* configured duration of the current mode, and leaves mode, cycleInRound and
\* round as they were.
C11_ResetToFull ==
  [][lastOp' = "reset" =>
       /\ ~isRunning' /\ endAt' = null
       /\ remainingMs' = DurationMs(settings, mode)
       /\ <<mode', cycleInRound', round', settings'>>
            = <<mode, cycleInRound, round, settings>>]_vars

\* A reset in a short break, cycle 2, with the clock at 30 s.
C11_Witness ==
  /\ lastOp = "reset" /\ mode = Short /\ cycleInRound = 2
  /\ now = 30000 /\ ~isRunning /\ remainingMs = 60000

\* C12: a second start() changes nothing the first one set, whatever time
\* passed in between, and likewise a second pause().
C12_Idempotent ==
  \A d \in Stalls \cup {0} :
    LET s1 == start(World, now)
        p1 == pause(World, now)
    IN  /\ start(s1, now + d) = s1
        /\ pause(p1, now + d) = p1

\* start() was called on an engine that was already running, after the clock
\* had advanced since it started.
C12_Witness ==
  /\ lastOp = "start" /\ isRunning /\ starts = 1 /\ ranMs > 0
  /\ endAt < now + remainingMs

\* C13: a recompute reports the time last assigned less all the clock time
\* elapsed while running since, whatever the stalls between ticks; endAt does
\* not move between ticks; and the tick completes the session exactly when
\* that difference is not positive.
C13_DriftFree ==
  /\ [](lastOp = "tick" /\ isRunning =>
          /\ remainingMs = baseMs - ranMs
          /\ remainingMs > 0
          /\ endAt = now + remainingMs)
  /\ [][isRunning /\ lastOp' \in {"tick", "clock"} => endAt' = endAt]_vars
  /\ [][isRunning /\ lastOp' \in {"tick", "complete"} =>
          ((lastOp' = "complete") <=> (baseMs - ranMs <= 0))]_vars

\* A recompute after stalls of 90 s in all, in a 2-minute session.
C13_Witness ==
  /\ lastOp = "tick" /\ isRunning
  /\ baseMs = 120000 /\ ranMs = 90000 /\ remainingMs = 30000

\* C14: selecting a mode directly switches to it, leaves the engine paused
\* with endAt absent and remainingMs the chosen mode's full duration, and
\* leaves cycleInRound and round alone, with auto-start on or off.
C14_SelectMode ==
  /\ \A m \in Mode :
       LET r == selectMode(World, m, now)
       IN  /\ r.mode = m
           /\ ~r.isRunning /\ r.endAt = null
           /\ r.remainingMs = DurationMs(settings, m)
           /\ r.cycleInRound = cycleInRound /\ r.round = round
  /\ lastOp = "mode" => ~isRunning /\ endAt = null /\ remainingMs = fullMs

\* The long break selected directly in round 1 with auto-start on.
C14_Witness ==
  /\ lastOp = "mode" /\ settings.autoStart
  /\ mode = Long /\ round = 1 /\ cycleInRound = 2 /\ ~isRunning

\* C15 as claimed: round >= 1, and every transition into the long break, by
\* whichever operation, raises round by one.
C15_RoundOnEveryLongBreak ==
  [][round' >= 1 /\ (mode' = Long /\ mode # Long => round' = round + 1)]_vars

\* C15, amended: round >= 1; a mode advance (skip or natural completion) that
\* enters the long break raises round by exactly one, nothing else changes
\* round, and a direct mode selection leaves it as it is.
C15_RoundOnAdvance ==
  [][/\ round' >= 1
     /\ Advanced /\ mode' = Long => mode = Work /\ round' = round + 1
     /\ round' # round => Advanced /\ mode' = Long /\ round' = round + 1
     /\ lastOp' = "mode" => round' = round]_vars

\* The long break entered for the second time, by natural completion.
C15_Witness ==
  /\ lastOp = "complete" /\ mode = Long /\ round = 3

\* The entries of a log that are change notifications.
Emits(l) == SelectSeq(l, LAMBDA x : x.call = "emit")

\* C16: a natural completion calls, in this order, the alarm and the
\* notification, both with the engine already paused and the notification
\* titled with the mode that completed, and only then advances the mode
\* (whose change notification comes last and shows the mode entered).
C16_CompletionOrder ==
  [][lastOp' = "complete" =>
       /\ Len(log') = 3
       /\ log'[1].call = "beep" /\ ~log'[1].arg.running
       /\ log'[2].call = "notify" /\ ~log'[2].arg.running
       /\ log'[2].arg.title = <<mode, "completed">>
       /\ log'[3].call = "emit" /\ log'[3].arg.mode = mode'
       /\ mode' # mode]_vars

\* A Work session completed with auto-start on: the notification is titled
\* Work while the short break is already running.
C16_Witness ==
  /\ lastOp = "complete" /\ mode = Short /\ isRunning
  /\ Len(log) = 3 /\ log[2].arg.title = <<Work, "completed">>

\* The timer's own state in a world.
TimerState(w) ==
  <<w.settings, w.mode, w.cycleInRound, w.round, w.isRunning, w.endAt,
    w.remainingMs, w.intervalId, w.loops>>

\* C17: when a tick is about to complete the session, whatever the alarm
\* playback and the notification meet, the tick advances the mode and leaves
\* the timer in the state it reaches when both collaborators succeed.
C17_FailuresSwallowed ==
  Completes =>
    \A outcome \in AlarmOutcomes, e \in NotifyEnvs :
      LET r == tick(World, now, outcome, e)
      IN  /\ r.mode # mode
          /\ r.remainingMs = DurationMs(settings, r.mode)
          /\ TimerState(r) = TimerState(tick(World, now, "ok", "granted"))

\* A resumed session about to be completed by the next tick, its end time
\* passed during a stall.
C17_Witness ==
  /\ Completes /\ now > endAt /\ lastOp = "clock" /\ starts = 2

\* A change notification carrying the state of world w.
Delivers(x, w) ==
  /\ x.call = "emit"
  /\ x.arg = Snapshot(w, x.arg.modeChanged)
  /\ x.arg.totalMs = DurationMs(w.settings, w.mode)

NotifiesChange(r) == r.log # <<>> /\ Delivers(r.log[Len(r.log)], r)

\* C18 as claimed: each engine operation that changes the timer state has
\* delivered, when it returns, a snapshot equal to the state it leaves.
C18_EveryOperationNotifies ==
  /\ \A r \in {start(World, now), pause(World, now), reset(World, now),
               skip(World, now)} :
       TimerState(r) # TimerState(World) => NotifiesChange(r)
  /\ \A next \in SettingsSpace : NotifiesChange(setSettings(World, next, now))
  /\ isRunning /\ loops > 0 => NotifiesChange(tick(World, now, "ok", "granted"))

\* C18, amended: skip(), setSettings (also when paused) and a running tick
\* deliver, when they return, a snapshot equal to the state they leave; for
\* start(), pause() and reset(), which deliver nothing themselves, the click
\* handler delivers it right after the call, so after every handler that
\* changed the state the last notification shows the current state.
C18_HandlersNotify ==
  /\ NotifiesChange(skip(World, now))
  /\ \A next \in SettingsSpace : NotifiesChange(setSettings(World, next, now))
  /\ isRunning /\ loops > 0 => NotifiesChange(tick(World, now, "ok", "granted"))
  /\ \A r \in {start(World, now), pause(World, now), reset(World, now)} :
       r.log = <<>>
  /\ lastOp # "clock" /\ ~(lastOp = "tick" /\ ~isRunning) =>
       /\ log # <<>>
       /\ Delivers(log[Len(log)], World)

\* The pause button pressed 30 s into a session: the handler's notification
\* shows the paused state.
C18_Witness ==
  /\ lastOp = "pause" /\ Len(log) = 1 /\ ranMs = 30000
  /\ ~log[1].arg.isRunning /\ log[1].arg.remainingMs = baseMs - 30000

\* C19: a mode advance issues exactly one change notification, with
\* modeChanged = TRUE, showing the new mode and its full remaining time; the
\* notification of an ordinary tick carries modeChanged = FALSE.
C19_ModeChangedFlag ==
  /\ lastOp \in {"skip", "complete"} =>
       /\ Len(Emits(log)) = 1
       /\ Emits(log)[1].arg.modeChanged
       /\ Emits(log)[1].arg.mode = mode
       /\ Emits(log)[1].arg.remainingMs = fullMs
  /\ lastOp = "tick" =>
       \A i \in 1..Len(log) : log[i].call = "emit" /\ ~log[i].arg.modeChanged
  /\ lastOp = "tick" /\ isRunning => Len(log) = 1

\* A completion with auto-start on after a break: its one notification shows
\* Work running, with modeChanged set.
C19_Witness ==
  /\ lastOp = "complete" /\ settings.autoStart /\ mode = Work
  /\ Len(log) = 3 /\ log[3].arg.isRunning /\ log[3].arg.modeChanged

\* C20: a tick that finds the engine paused changes nothing, completes
\* nothing and notifies nobody.
C20_PausedTickNoOp ==
  [][lastOp' = "tick" /\ ~isRunning =>
       /\ UNCHANGED <<settings, mode, remainingMs, endAt, cycleInRound, round,
                      isRunning, intervalId, loops, alarms, notifies>>
       /\ log' = <<>>]_vars

\* The loop a skip left behind ticks while the engine is paused, two minutes
\* on.
C20_Witness ==
  /\ lastOp = "tick" /\ ~isRunning /\ now = 120000
  /\ log = <<>> /\ remainingMs = fullMs

\* The handlers whose code reaches pause(): the pause, reset and mode buttons,
\* the two settings handlers and the completing tick.
ReachPause == {"pause", "reset", "mode", "save", "defaults", "complete"}

\* C21: at most one interval loop is scheduled at any time, the engine holds
\* its handle exactly while it is scheduled, and a loop is cancelled only by
\* pause() taking effect on a running engine, called directly or through
\* reset, configure, mode selection or the completion algorithm.
C21_AtMostOneLoop ==
  [][/\ loops \in {0, 1} /\ loops' \in {0, 1}
     /\ (intervalId' # null) <=> (loops' = 1)
     /\ loops' < loops => isRunning /\ lastOp' \in ReachPause]_vars

\* A skip with auto-start on, after the clock moved: the session it starts
\* runs on one loop.
C21_Witness ==
  /\ lastOp = "skip" /\ isRunning /\ settings.autoStart
  /\ starts = 1 /\ loops = 1 /\ round = 2 /\ now > 0

\* C28 as claimed: a paused engine has time left.
C28_PausedHasTimeLeft == ~isRunning => remainingMs > 0

\* C29: while the engine is running, exactly one interval loop is scheduled
\* and the engine holds its handle.
C29_RunningHasLoop == isRunning => loops = 1 /\ intervalId # null

\* A session auto-started by a natural completion, and ticking.
C29_Witness ==
  /\ isRunning /\ lastOp = "tick" /\ alarms = 1 /\ mode = Long
  /\ loops = 1 /\ remainingMs < fullMs

\* C30 as claimed: a paused engine has no interval loop scheduled.
C30_PausedHasNoLoop == ~isRunning => loops = 0

\* C23: the state constructed for a configuration is Work, round 1, cycle 1,
\* paused, no end time, no loop, and the full work duration remaining.
C23_InitialState ==
  lastOp = "init" =>
    /\ mode = Work /\ round = 1 /\ cycleInRound = 1
    /\ ~isRunning /\ endAt = null
    /\ intervalId = null /\ loops = 0
    /\ remainingMs = settings.workMinutes * 60000

\* The timer constructed from a stored record that sets cyclesPerRound only.
C23_Witness ==
  /\ lastOp = "init" /\ settings.cyclesPerRound = 2
  /\ settings.workMinutes = 25 /\ remainingMs = 1500000

\* C24 as claimed: the configuration in use has durations and cycles per
\* round of at least 1.
C24_ConfigValid ==
  /\ settings.workMinutes >= 1
  /\ settings.shortMinutes >= 1
  /\ settings.longMinutes >= 1
  /\ settings.cyclesPerRound >= 1

Keys ==
  {"workMinutes", "shortMinutes", "longMinutes", "cyclesPerRound", "autoStart"}

\* C25: loading never fails; an unusable record (missing, empty, unparseable)
\* gives exactly the defaults, and from a stored object each key present
\* keeps its stored value and each key missing takes its default.
C25_LoadSettings ==
  /\ stored \in Unusable => settings = defaultSettings
  /\ stored.kind = "object" =>
       \A k \in Keys :
         settings[k] = IF stored.fields[k].present
                       THEN stored.fields[k].value
                       ELSE defaultSettings[k]

\* A stored object with workMinutes and no shortMinutes, loaded.
C25_Witness ==
  /\ lastOp = "init" /\ stored.kind = "object"
  /\ stored.fields.workMinutes.present /\ settings.workMinutes = 1
  /\ ~stored.fields.shortMinutes.present /\ settings.shortMinutes = 5

\* What JavaScript's parseInt makes of each text of Texts.
Meaning(text) ==
  CASE text = <<"0">> -> [nan |-> FALSE, n |-> 0]
    [] text = <<"7">> -> [nan |-> FALSE, n |-> 7]
    [] text = <<"-", "3">> -> [nan |-> FALSE, n |-> 0 - 3]
    [] text = <<"+", "5">> -> [nan |-> FALSE, n |-> 5]
    [] text = <<"6", "1">> -> [nan |-> FALSE, n |-> 61]
    [] text = <<"2", "0", "0">> -> [nan |-> FALSE, n |-> 200]
    [] text = <<" ", "1", "2">> -> [nan |-> FALSE, n |-> 12]
    [] text = <<"9", "x">> -> [nan |-> FALSE, n |-> 9]
    [] OTHER -> [nan |-> TRUE, n |-> 0]

FieldOk(text, v, lo, hi, fallback) ==
  /\ v \in lo..hi
  /\ Meaning(text).nan => v = fallback
  /\ ~Meaning(text).nan =>
       v = (IF Meaning(text).n < lo THEN lo
            ELSE IF Meaning(text).n > hi THEN hi
            ELSE Meaning(text).n)

\* C27: after saving the dialog each number of the configuration is the
\* field's fallback when its text holds no integer, and otherwise the integer
\* clamped into the field's range: work 1..180, breaks 1..60, cycles 1..12.
C27_ClampedSettings ==
  lastOp = "save" =>
    /\ FieldOk(inputs.work, settings.workMinutes, 1, 180, 25)
    /\ FieldOk(inputs.short, settings.shortMinutes, 1, 60, 5)
    /\ FieldOk(inputs.long, settings.longMinutes, 1, 60, 15)
    /\ FieldOk(inputs.cycles, settings.cyclesPerRound, 1, 12, 4)
    /\ stored = stringify(settings)

\* Saved with 200 for work and long break and nothing for short break and
\* cycles.
C27_Witness ==
  /\ lastOp = "save"
  /\ inputs.work = <<"2", "0", "0">> /\ settings.workMinutes = 180
  /\ settings.longMinutes = 60
  /\ inputs.cycles = <<>> /\ settings.cyclesPerRound = 4
  /\ settings.shortMinutes = 5

\* C26: the notification call of a completion shows a notification only if
\* the setting is on and the permission is granted, already or by the answer
\* to a request; it shows none when the permission is denied or the setting
\* is off; and it requests the permission only when the setting is on and
\* the permission is neither granted nor denied.
C26_NotificationGate ==
  Completes =>
    \A e \in NotifyEnvs :
      LET n == tick(World, now, "ok", e).log[2].arg
          v == EnvOf(e)
      IN  /\ n.shown =>
               /\ v.enabled
               /\ \/ v.permission = "granted"
                  \/ n.requested /\ v.answer = "granted"
          /\ ~v.enabled \/ v.permission = "denied" => ~n.shown /\ ~n.requested
          /\ n.requested => v.enabled /\ v.permission = "default"
          /\ v.permission = "granted" => ~n.requested

\* A completion whose notification call requested the permission and showed
\* the notification.
C26_Witness ==
  /\ lastOp = "complete" /\ Len(log) = 3
  /\ log[2].arg.requested /\ log[2].arg.shown

C31_NeverEarly ==
  [][/\ lastOp' = "complete" =>
          /\ isRunning /\ endAt # null /\ now >= endAt
          /\ baseMs = DurationMs(settings, mode)
          /\ ranMs >= baseMs
     /\ alarms' # alarms \/ notifies' # notifies => lastOp' = "complete"
     /\ ~isRunning /\ lastOp' \in {"tick", "clock", "complete"} =>
          /\ ~isRunning' /\ mode' = mode /\ remainingMs' = remainingMs
          /\ alarms' = alarms /\ notifies' = notifies]_vars

\* A one-minute Work session completed two minutes after the page started:
\* a minute of it was spent paused, or passed during a stall.
C31_Witness ==
  /\ lastOp = "complete" /\ alarms = 1 /\ mode = Short /\ now = 120000
  /\ log[2].arg.title = <<Work, "completed">> /\ settings.workMinutes = 1

\* C32: cycleInRound and round change only in a mode advance out of Work;
\* configure and reset also leave the mode as it is; round never decreases.
C32_CountersFrame ==
  [][/\ <<cycleInRound', round'>> # <<cycleInRound, round>> =>
          Advanced /\ mode = Work
     /\ lastOp' \in {"save", "defaults", "reset"} => mode' = mode
     /\ round' >= round]_vars

\* A reset in the second Work session of the second round.
C32_Witness ==
  /\ lastOp = "reset" /\ mode = Work /\ cycleInRound = 2 /\ round = 2

====
